---- MODULE Spec2Model ----
(***************************************************************************)
(* ArtistRoyaltyTracker: the reference-dataset loader (DatasetLoader), the *)
(* matcher (AnalysisEngine.cross_reference) and the cleaning of the        *)
(* catalog keys (SpotifyHandler.get_artist_catalog).                       *)
(*                                                                         *)
(* Strings are sequences of one-character strings, so that strip() and     *)
(* upper() are computed and not assumed.  A pandas DataFrame is a record   *)
(* [index, columns, rows]; the Python value None is the record None.       *)
(* A reference row is [pos, raw]: raw is the value of the key column as    *)
(* read from the file and pos, the row's position in the file, stands for  *)
(* the row's other columns.                                                *)
(***************************************************************************)
EXTENDS Integers, Sequences, FiniteSets, TLC

\* ------------------------------------------------------------------ bounds
MaxRows == 2

MaxChunk == 2

MaxCat == 2

\* ----------------------------------------------------------------- strings
NaN == <<"<NaN>">>

NA == <<"<NA>">>

\* None where a DataFrame is expected
None == [index |-> "None", columns |-> <<>>, rows |-> <<>>]

\* None where a column name is expected
NoColumn == <<"<None>">>

\* None where a string (a key) is expected
NoKey == <<"<None>">>

EmptyDict == [k \in {} |-> 0]

Range(seq) == {seq[i] : i \in 1..Len(seq)}

Min(a, b) == IF a < b THEN a ELSE b

UpperChar(c) ==
    CASE c = "a" -> "A"
      [] c = "b" -> "B"
      [] c = "i" -> "I"
      [] c = "s" -> "S"
      [] c = "r" -> "R"
      [] c = "c" -> "C"
      [] c = "e" -> "E"
      [] c = "l" -> "L"
      [] c = "p" -> "P"
      [] c = "t" -> "T"
      [] c = "n" -> "N"
      [] c = "o" -> "O"
      [] OTHER -> c

LowerChar(c) ==
    CASE c = "A" -> "a"
      [] c = "B" -> "b"
      [] c = "I" -> "i"
      [] c = "S" -> "s"
      [] c = "R" -> "r"
      [] c = "C" -> "c"
      [] c = "P" -> "p"
      [] c = "T" -> "t"
      [] OTHER -> c

upper(s) == [i \in 1..Len(s) |-> UpperChar(s[i])]

lower(s) == [i \in 1..Len(s) |-> LowerChar(s[i])]

RECURSIVE lstrip(_)
lstrip(s) == IF s # <<>> /\ Head(s) = " " THEN lstrip(Tail(s)) ELSE s

RECURSIVE rstrip(_)
rstrip(s) ==
    IF s # <<>> /\ s[Len(s)] = " " THEN rstrip(SubSeq(s, 1, Len(s) - 1)) ELSE s

\* a strip() that removes one blank at each end
strip_once(s) ==
    LET t == IF s # <<>> /\ Head(s) = " " THEN Tail(s) ELSE s
    IN  IF t # <<>> /\ t[Len(t)] = " " THEN SubSeq(t, 1, Len(t) - 1) ELSE t

strip(s) == rstrip(lstrip(s))

fillna(v) == IF v = NaN THEN <<>> ELSE v

notna(v) == v # NaN /\ v # NA

\* 'sub' in s
contains(s, sub) ==
    \E i \in 0..(Len(s) - Len(sub)) : SubSeq(s, i + 1, i + Len(sub)) = sub

\* chunk[self.isrc_column].fillna('').str.strip().str.upper()
ISRC_CLEAN(raw) == upper(strip(fillna(raw)))

\* ------------------------------------------------------------ input domains
\* a row of the file that pd.read_csv cannot parse (a quote that is never
\* closed, bytes that are not UTF-8): the read that reaches it raises
BadRow == <<"<bad>">>

\* values of the key column of the file: an empty field (read as NaN), a
\* whitespace-only field, and keys in several spellings
RawKeys == {NaN, <<" ">>, <<" ", "a", " ">>, <<"A">>, <<"b">>}

\* values of the column isrc_clean of a catalog DataFrame
CatalogKeys == {NA, <<>>, <<"A">>, <<"B">>}

\* values of external_ids.isrc in the answers of the Spotify API
RawCatalogKeys == {NoKey, <<>>, <<" ", "a">>}

\* values handed to search_isrc
Queries == {NoKey, <<>>, <<" ">>, <<"a", " ">>, <<"B">>, <<" ", " ", "b">>}

ISRC == <<"i", "s", "r", "c">>

ISRC_CLEAN_COL == <<"I", "S", "R", "C", "_", "C", "L", "E", "A", "N">>

Headers == { << <<"I", "S", "R", "C">>, <<"P", "c", "t">> >>,
             << <<"T", "i", "t", "l", "e">>, <<"P", "c", "t">> >> }

\* a header of eleven columns, the key column last
WideHeader ==
    << <<"C", "0">>, <<"C", "1">>, <<"C", "2">>, <<"C", "3">>, <<"C", "4">>,
       <<"C", "5">>, <<"C", "6">>, <<"C", "7">>, <<"C", "8">>, <<"C", "9">>,
       <<"I", "S", "R", "C">> >>

\* more headers: the key column after another column, a column named as a
\* field of the catalog, and a header of more than ten columns
ColumnHeaders ==
    Headers \cup
    { << <<"T", "i", "t", "l", "e">>, <<"I", "S", "R", "C">> >>,
      << <<"I", "S", "R", "C">>,
         <<"d", "u", "r", "a", "t", "i", "o", "n", "_", "m", "s">> >>,
      WideHeader }

\* settings.py, line 48
DefaultKeywords ==
    { <<"i", "s", "r", "c">>, <<"t", "i", "t", "l", "e">>,
      <<"a", "r", "t", "i", "s", "t">>, <<"w", "o", "r", "k">>,
      <<"s", "h", "a", "r", "e">>, <<"r", "i", "g", "h", "t">>,
      <<"r", "e", "s", "o", "u", "r", "c", "e">>,
      <<"d", "u", "r", "a", "t", "i", "o", "n">> }

\* other values of ESSENTIAL_KEYWORDS
Allowlists ==
    { DefaultKeywords, {<<"t", "i", "t", "l", "e">>}, {<<"w", "o", "r", "k">>}, {} }

RECURSIVE SeqsUpTo(_, _)
SeqsUpTo(S, n) ==
    IF n = 0 THEN {<<>>}
    ELSE LET shorter == SeqsUpTo(S, n - 1)
         IN  shorter \cup {Append(q, x) : q \in {r \in shorter : Len(r) = n - 1}, x \in S}

Files == SeqsUpTo(RawKeys, MaxRows)

\* the files of at most one row, and files with a row that cannot be parsed
InputFiles ==
    SeqsUpTo(RawKeys, 1) \cup { <<BadRow>>, << <<"A">>, BadRow, <<"b">> >> }

\* a catalog DataFrame: track_id is the track's position, two tracks per album
CatalogColumns == <<"track_name", "album_name", "release_date", "isrc", "track_id",
                    "album_id", "album_type", "track_number", "duration_ms", "isrc_clean">>

Catalog(keys) ==
    [index |-> "RangeIndex",
     columns |-> CatalogColumns,
     rows  |-> [i \in 1..Len(keys) |->
                  [track_id |-> i, album_name |-> (i + 1) \div 2, isrc_clean |-> keys[i]]]]

Catalogs == {Catalog(keys) : keys \in SeqsUpTo(CatalogKeys, MaxCat)} \cup {None}

VARIABLES file, header, CHUNK_SIZE, FILTER_NO_ISRC, OPTIMIZE_COLUMNS, ESSENTIAL_KEYWORDS,
          pc, error, df, isrc_column,
          essential_cols, chunks, total_rows, isrc_set, nread, groups,
          call, run, matchers

cfg == <<file, header, CHUNK_SIZE, FILTER_NO_ISRC, OPTIMIZE_COLUMNS, ESSENTIAL_KEYWORDS>>

\* the local variables of load(), of the call that is running or of the call
\* that returned True last; groups is the history of its reads of the data
\* rows: the number of rows each read returned
locals == <<essential_cols, chunks, total_rows, isrc_set, nread, groups>>

vars == <<file, header, CHUNK_SIZE, FILTER_NO_ISRC, OPTIMIZE_COLUMNS, ESSENTIAL_KEYWORDS,
          pc, error, df, isrc_column,
          essential_cols, chunks, total_rows, isrc_set, nread, groups, call,
          run, matchers>>

\* run is the frame of MusicRightsAnalyzer.run; matchers holds the frames of
\* the invocations of cross_reference that run side by side
callers == <<run, matchers>>

Matchers == {"m1", "m2"}

\* MusicRightsAnalyzer.__init__, lines 33-39, before run() is called.  pc is
\* the step run() is at, invoked the steps it has called, ok what they
\* answered, returned what run() returned
NoRun ==
    [pc |-> "authenticate", invoked |-> <<>>, ok |-> <<>>, returned |-> "none",
     df_catalog |-> None, df_matches |-> None, stats |-> EmptyDict]

\* no invocation of cross_reference
NoMatcher == [pc |-> "idle"]

\* -------------------------------------------------------------- DatasetLoader
FallbackColumns == 10

PeekRows == 1000

_identify_isrc_column(columns) ==
    LET isrc_columns == SelectSeq(columns, LAMBDA col : contains(lower(col), ISRC))
    IN  IF isrc_columns = <<>> THEN NoColumn ELSE isrc_columns[1]

\* a selector without the bound of line 80: all the columns as the fallback
_get_essential_columns_unbounded(all_columns) ==
    IF ~OPTIMIZE_COLUMNS THEN all_columns
    ELSE LET essential_cols_ ==
                 SelectSeq(all_columns,
                           LAMBDA col : \E keyword \in ESSENTIAL_KEYWORDS :
                                            contains(lower(col), keyword))
         IN  IF essential_cols_ = <<>> THEN all_columns ELSE essential_cols_

_get_essential_columns(all_columns) ==
    IF ~OPTIMIZE_COLUMNS THEN all_columns
    ELSE LET essential_cols_ ==
                 SelectSeq(all_columns,
                           LAMBDA col : \E keyword \in ESSENTIAL_KEYWORDS :
                                            contains(lower(col), keyword))
         IN  IF essential_cols_ = <<>>
             THEN SubSeq(all_columns, 1,
                         IF Len(all_columns) < FallbackColumns
                         THEN Len(all_columns) ELSE FallbackColumns)
             ELSE essential_cols_

\* pd.read_csv(..., nrows=1000), line 98: the rows the peek reads
peek(f) == SubSeq(f, 1, Min(PeekRows, Len(f)))

\* pd.read_csv parses these rows without raising
parses(rows) == \A i \in 1..Len(rows) : rows[i] # BadRow

\* the rows first..last of the file, as pd.read_csv materialises them
read_rows(f, first, last) ==
    [i \in 1..(last - first + 1) |-> [pos |-> first + i - 1, raw |-> f[first + i - 1]]]

\* chunk['ISRC_CLEAN'] = ... (lines 132-137)
add_isrc_clean(chunk) ==
    [i \in 1..Len(chunk) |->
        [pos |-> chunk[i].pos, raw |-> chunk[i].raw, ISRC_CLEAN |-> ISRC_CLEAN(chunk[i].raw)]]

\* the filter on the raw column: it drops the absent values only
filter_chunk_raw(chunk, flt) ==
    IF flt THEN SelectSeq(chunk, LAMBDA r : r.raw # NaN) ELSE chunk

\* if FILTER_NO_ISRC: chunk = chunk[chunk['ISRC_CLEAN'] != ''] (lines 140-141)
filter_chunk(chunk, flt) ==
    IF flt THEN SelectSeq(chunk, LAMBDA r : r.ISRC_CLEAN # <<>>) ELSE chunk

\* a concatenation that puts the later row groups first
RECURSIVE concat_reversed(_)
concat_reversed(cs) == IF cs = <<>> THEN <<>> ELSE concat_reversed(Tail(cs)) \o Head(cs)

RECURSIVE concat(_)
concat(cs) == IF cs = <<>> THEN <<>> ELSE Head(cs) \o concat(Tail(cs))

\* pc is the position of load(): NotStarted before the first call, Loading in
\* the loop of line 130, Indexing between lines 154 and 158, Loaded after
\* return True, Failed after return False.  error is what made it return False.
Idle == {"NotStarted", "Loaded", "Failed"}

\* the state after DatasetLoader.__init__, whatever the configuration
Constructed ==
    /\ pc = "NotStarted"
    /\ error = "none"
    /\ df = None
    /\ isrc_column = NoColumn
    /\ essential_cols = <<>>
    /\ chunks = <<>>
    /\ total_rows = 0
    /\ isrc_set = {}
    /\ nread = 0
    /\ groups = <<>>
    /\ call = [op |-> "none"]
    /\ run = NoRun
    /\ matchers = [m \in Matchers |-> NoMatcher]

\* lines 169-173 (line 93 for a missing file): load() returns False and its
\* local variables are gone
return_False(why) ==
    /\ pc' = "Failed"
    /\ error' = why
    /\ essential_cols' = <<>>
    /\ chunks' = <<>>
    /\ total_rows' = 0
    /\ isrc_set' = {}
    /\ nread' = 0
    /\ groups' = <<>>

\* The configuration is fixed for a run.  CHUNK_SIZE (settings.py: 500000) is
\* drawn from 1..MaxChunk so that files of a few rows split into several row
\* groups; FILTER_NO_ISRC (settings.py: True) is drawn from both values;
\* OPTIMIZE_COLUMNS and ESSENTIAL_KEYWORDS have the values of settings.py.
Init ==
    /\ file \in Files
    /\ header \in Headers
    /\ CHUNK_SIZE \in 1..MaxChunk
    /\ FILTER_NO_ISRC \in BOOLEAN
    /\ OPTIMIZE_COLUMNS = TRUE
    /\ ESSENTIAL_KEYWORDS = DefaultKeywords
    /\ Constructed

\* The wider inputs: every header of ColumnHeaders, every allowlist and both
\* values of OPTIMIZE_COLUMNS, over the files of InputFiles, read in row groups
\* of MaxChunk rows with the filter of settings.py.
InitInputs ==
    /\ file \in InputFiles
    /\ header \in ColumnHeaders
    /\ CHUNK_SIZE = MaxChunk
    /\ FILTER_NO_ISRC = TRUE
    /\ OPTIMIZE_COLUMNS \in BOOLEAN
    /\ ESSENTIAL_KEYWORDS \in Allowlists
    /\ Constructed

\* load(), lines 91-98: the file is missing (check_file_exists() is False) or
\* the peek read raises and the handler of line 169 runs: return False
load_unreadable ==
    /\ pc \in Idle
    /\ call.op = "none"
    /\ \E why \in {"file not found", "read error"} : return_False(why)
    /\ UNCHANGED <<cfg, callers, df, isrc_column, call>>

\* load(), line 98 and lines 169-173: the peek reaches a row it cannot parse,
\* pd.read_csv raises and load() returns False
load_parse_error ==
    /\ pc \in Idle
    /\ call.op = "none"
    /\ ~parses(peek(file))
    /\ return_False("parse error")
    /\ UNCHANGED <<cfg, callers, df, isrc_column, call>>

\* a degraded load that keeps the rows whose first field is not empty
load_degraded_dropna ==
    /\ pc \in Idle
    /\ call.op = "none"
    /\ parses(peek(file))
    /\ _identify_isrc_column(header) = NoColumn
    /\ isrc_column' = NoColumn
    /\ df' = [index |-> "RangeIndex", columns |-> header,
              rows |-> SelectSeq(read_rows(file, 1, Len(file)), LAMBDA r : r.raw # NaN)]
    /\ groups' = <<Len(file)>>
    /\ pc' = "Loaded"
    /\ error' = "none"
    /\ UNCHANGED <<cfg, callers, essential_cols, chunks, total_rows, isrc_set, nread, call>>

\* load(), lines 98-106: no key column, the whole file is read at once
load_degraded ==
    /\ pc \in Idle
    /\ call.op = "none"
    /\ parses(peek(file))
    /\ _identify_isrc_column(header) = NoColumn
    /\ isrc_column' = NoColumn
    /\ \E read_ok \in (IF parses(file) THEN BOOLEAN ELSE {FALSE}) :
          IF read_ok
          THEN /\ df' = [index |-> "RangeIndex", columns |-> header,
                         rows |-> read_rows(file, 1, Len(file))]
               /\ groups' = <<Len(file)>>
               /\ pc' = "Loaded"
               /\ error' = "none"
               /\ UNCHANGED <<essential_cols, chunks, total_rows, isrc_set, nread>>
          ELSE /\ df' = df
               /\ return_False(IF parses(file) THEN "read error" ELSE "parse error")
    /\ UNCHANGED <<cfg, callers, call>>

\* load(), lines 98-128: key column found, the columns are selected and the
\* chunk iterator is created
load_begin ==
    /\ pc \in Idle
    /\ call.op = "none"
    /\ parses(peek(file))
    /\ _identify_isrc_column(header) # NoColumn
    /\ isrc_column' = _identify_isrc_column(header)
    /\ essential_cols' = _get_essential_columns(header)
    /\ chunks' = <<>>
    /\ total_rows' = 0
    /\ isrc_set' = {}
    /\ nread' = 0
    /\ groups' = <<>>
    /\ pc' = "Loading"
    /\ error' = "none"
    /\ UNCHANGED <<cfg, callers, df, call>>

\* one iteration of the loop of lines 130-150.  The iterator returns row groups
\* of CHUNK_SIZE rows, the last one shorter; for a file without rows it returns
\* one empty group.  Reading the group raises on a row that cannot be parsed,
\* and line 133 raises KeyError if the key column is not among the columns
\* read (usecols=essential_cols); the handler of line 169 returns False.
load_chunk ==
    /\ pc = "Loading"
    /\ nread < Len(file) \/ groups = <<>>
    /\ LET last  == Min(nread + CHUNK_SIZE, Len(file))
           chunk == filter_chunk(add_isrc_clean(read_rows(file, nread + 1, last)),
                                 FILTER_NO_ISRC)
       IN  IF ~parses(SubSeq(file, nread + 1, last))
           THEN return_False("parse error")
           ELSE IF isrc_column \notin Range(essential_cols)
           THEN return_False("KeyError")
           ELSE /\ UNCHANGED <<pc, error, essential_cols>>
                /\ nread' = last
                /\ groups' = Append(groups, last - nread)
                /\ IF chunk # <<>>
                   THEN /\ chunks' = Append(chunks, chunk)
                        /\ isrc_set' = isrc_set \cup {chunk[i].ISRC_CLEAN : i \in 1..Len(chunk)}
                        /\ total_rows' = total_rows + Len(chunk)
                   ELSE UNCHANGED <<chunks, isrc_set, total_rows>>
    /\ UNCHANGED <<cfg, callers, df, isrc_column, call>>

\* line 154: pd.concat(chunks, ignore_index=True); it raises ValueError on an
\* empty list, and the handler of line 169 returns False
load_concat ==
    /\ pc = "Loading"
    /\ nread = Len(file)
    /\ groups # <<>>
    /\ IF chunks = <<>>
       THEN /\ return_False("No objects to concatenate")
            /\ df' = df
       ELSE /\ pc' = "Indexing"
            /\ UNCHANGED <<error, locals>>
            /\ df' = [index |-> "RangeIndex",
                      columns |-> Append(essential_cols, ISRC_CLEAN_COL),
                      rows |-> concat(chunks)]
    /\ UNCHANGED <<cfg, callers, isrc_column, call>>

\* lines 158-167: set_index('ISRC_CLEAN', drop=False), return True
load_set_index ==
    /\ pc = "Indexing"
    /\ df' = [df EXCEPT !.index = "ISRC_CLEAN"]
    /\ pc' = "Loaded"
    /\ UNCHANGED <<cfg, callers, error, isrc_column, locals, call>>

\* lines 169-173: the read of a row group, or the concatenation or indexing of
\* lines 154-160, raises; load() returns False
load_except ==
    /\ pc \in {"Loading", "Indexing"}
    /\ return_False(IF pc = "Loading" THEN "read error" ELSE "indexing error")
    /\ UNCHANGED <<cfg, callers, df, isrc_column, call>>

get_dataframe == df

\* ------------------------------------------------------------------ lookups
\* key in frame.index: a RangeIndex holds row numbers, never a string
in_index(frame, key) ==
    /\ frame.index = "ISRC_CLEAN"
    /\ \E i \in 1..Len(frame.rows) : frame.rows[i].ISRC_CLEAN = key

\* frame.loc[key]: the rows labelled key, in the order of the frame
loc(frame, key) == SelectSeq(frame.rows, LAMBDA r : r.ISRC_CLEAN = key)

\* iloc[-1] in place of iloc[0]
last_row(rows) == rows[Len(rows)]

\* lines 63-68: a DataFrame (several rows) is reduced by iloc[0], a Series
\* (one row) is taken as it is
first_row(rows) == rows[1]

\* line 192: isrc.strip() on None raises AttributeError, and search_isrc has
\* no handler
search_isrc_raises(isrc) == df # None /\ isrc = NoKey

\* search_isrc(), lines 189-200; nothing is returned when it raises
search_isrc(isrc) ==
    IF df = None \/ search_isrc_raises(isrc) THEN <<>>
    ELSE LET isrc_clean == upper(strip(isrc))
         IN  IF in_index(df, isrc_clean) THEN loc(df, isrc_clean) ELSE <<>>

\* ------------------------------------------------------------- SpotifyHandler
\* .astype(str): the value None becomes the string 'None'; a pandas whose
\* string dtype is the default keeps it as a missing value
astype_str(v, keeps_missing) ==
    IF v # NoKey THEN v
    ELSE IF keeps_missing THEN NA ELSE <<"N", "o", "n", "e">>

\* lines 250-256: .astype(str).str.strip().str.upper().replace('', pd.NA)
isrc_clean(isrc, keeps_missing) ==
    LET s == astype_str(isrc, keeps_missing)
        u == IF s = NA THEN NA ELSE upper(strip(s))
    IN  IF u = <<>> THEN NA ELSE u

\* get_artist_catalog(), lines 241-262, on the tracks collected by lines
\* 215-237; the names of the tracks differ, so drop_duplicates drops nothing
get_artist_catalog(isrcs, keeps_missing) ==
    [index |-> "RangeIndex",
     columns |-> IF isrcs = <<>> THEN <<>> ELSE CatalogColumns,
     rows  |-> [i \in 1..Len(isrcs) |->
                  [track_id |-> i, album_name |-> (i + 1) \div 2, isrc |-> isrcs[i],
                   isrc_clean |-> isrc_clean(isrcs[i], keeps_missing)]]]

\* ------------------------------------------------------------- AnalysisEngine
\* the keys of match_record after lines 71-79
MatchRecordKeys ==
    { <<"t", "r", "a", "c", "k", "_", "n", "a", "m", "e">>,
      <<"a", "l", "b", "u", "m", "_", "n", "a", "m", "e">>,
      <<"r", "e", "l", "e", "a", "s", "e", "_", "d", "a", "t", "e">>,
      <<"i", "s", "r", "c">>,
      <<"a", "l", "b", "u", "m", "_", "t", "y", "p", "e">>,
      <<"d", "u", "r", "a", "t", "i", "o", "n", "_", "m", "s">>,
      <<"s", "p", "o", "t", "i", "f", "y", "_", "t", "r", "a", "c", "k", "_", "i", "d">> }

\* f'unclaimed_{col}'
unclaimed_(col) == <<"u", "n", "c", "l", "a", "i", "m", "e", "d", "_">> \o col

\* lines 71-86: the catalog fields and the fields of the reference row other
\* than ISRC_CLEAN; track_id stands for the descriptive fields of the track,
\* unclaimed for the values copied from the reference row, and
\* unclaimed_fields is the set of the keys that lines 82-84 add
match_record(row, unclaimed_data, columns) ==
    [spotify_track_id |-> row.track_id,
     album_name       |-> row.album_name,
     isrc_clean       |-> row.isrc_clean,
     unclaimed        |-> [pos |-> unclaimed_data.pos, raw |-> unclaimed_data.raw],
     unclaimed_fields |-> { unclaimed_(col) :
                              col \in { c \in Range(columns) :
                                          c # ISRC_CLEAN_COL /\ c \notin MatchRecordKeys } }]

\* line 43: df_catalog[df_catalog['isrc_clean'].notna()]
with_isrc(df_catalog) == SelectSeq(df_catalog.rows, LAMBDA row : notna(row.isrc_clean))

\* the loop of lines 55-89
RECURSIVE match_loop(_, _)
match_loop(catalog_with_isrc, df_unclaimed) ==
    IF catalog_with_isrc = <<>> THEN <<>>
    ELSE LET row  == Head(catalog_with_isrc)
             rest == match_loop(Tail(catalog_with_isrc), df_unclaimed)
         IN  IF in_index(df_unclaimed, row.isrc_clean)
             THEN <<match_record(row, first_row(loc(df_unclaimed, row.isrc_clean)),
                                  df_unclaimed.columns)>> \o rest
             ELSE rest

\* line 97: matches_found / total_catalog * 100, kept as an exact fraction
match_rate(matches_found, total_catalog) ==
    IF total_catalog > 0
    THEN [num |-> matches_found * 100, den |-> total_catalog]
    ELSE [num |-> 0, den |-> 1]

nunique(df_catalog) == Cardinality({df_catalog.rows[i].album_name : i \in 1..Len(df_catalog.rows)})

\* lines 94-105; no header of Headers has the column
\* UnclaimedRightSharePercentage, so lines 112-117 add nothing
statistics(df_catalog, catalog_with_isrc, df_matches) ==
    [total_catalog_tracks |-> Len(df_catalog.rows),
     catalog_with_isrc    |-> Len(catalog_with_isrc),
     matches_found        |-> Len(df_matches),
     match_rate           |-> match_rate(Len(df_matches), Len(catalog_with_isrc)),
     unique_albums        |-> nunique(df_catalog)]

\* cross_reference(), lines 21-119
cross_reference(df_catalog, df_unclaimed) ==
    IF df_catalog = None \/ df_catalog.rows = <<>>
    THEN [df_matches |-> <<>>, stats |-> EmptyDict]
    ELSE IF df_unclaimed = None \/ df_unclaimed.rows = <<>>
    THEN [df_matches |-> <<>>, stats |-> EmptyDict]
    ELSE LET catalog_with_isrc == with_isrc(df_catalog)
         IN  IF catalog_with_isrc = <<>>
             THEN [df_matches |-> <<>>, stats |-> EmptyDict]
             ELSE LET df_matches == match_loop(catalog_with_isrc, df_unclaimed)
                  IN  [df_matches |-> df_matches,
                       stats |-> statistics(df_catalog, catalog_with_isrc, df_matches)]

\* generate_summary(), lines 134-141
get(stats, key) == IF key \in DOMAIN stats THEN stats[key] ELSE 0

generate_summary(stats) ==
    [total_tracks     |-> get(stats, "total_catalog_tracks"),
     tracks_with_isrc |-> get(stats, "catalog_with_isrc"),
     matches_found    |-> get(stats, "matches_found"),
     match_rate       |-> get(stats, "match_rate"),
     unique_albums    |-> get(stats, "unique_albums")]

\* The program is sequential: one call of the loader or of the matcher at a
\* time.  call holds the arguments and the returned values of the call that
\* returned last, until the caller is done with them (call_done).
\* A caller (main.py, lines 86-90) hands a catalog and get_dataframe() to the
\* matcher.
call_cross_reference ==
    /\ pc \in Idle
    /\ call.op = "none"
    /\ \E df_catalog \in Catalogs :
          LET ret == cross_reference(df_catalog, get_dataframe)
          IN  call' = [op |-> "cross_reference", df_catalog |-> df_catalog,
                       df_matches |-> ret.df_matches, stats |-> ret.stats]
    /\ UNCHANGED <<cfg, callers, pc, error, df, isrc_column, locals>>

\* a caller looks one key up
call_search_isrc ==
    /\ pc \in Idle
    /\ call.op = "none"
    /\ \E isrc \in Queries :
          call' = [op |-> "search_isrc", isrc |-> isrc, result |-> search_isrc(isrc),
                   raised |-> search_isrc_raises(isrc)]
    /\ UNCHANGED <<cfg, callers, pc, error, df, isrc_column, locals>>

\* a caller (main.py, line 76) fetches the catalog of an artist; the API gives
\* each track an ISRC, an empty one, or null
call_get_artist_catalog ==
    /\ pc \in Idle
    /\ call.op = "none"
    /\ \E isrcs \in SeqsUpTo(RawCatalogKeys, MaxCat), keeps_missing \in BOOLEAN :
          call' = [op |-> "get_artist_catalog", isrcs |-> isrcs,
                   df_catalog |-> get_artist_catalog(isrcs, keeps_missing)]
    /\ UNCHANGED <<cfg, callers, pc, error, df, isrc_column, locals>>

call_done ==
    /\ call.op # "none"
    /\ call' = [op |-> "none"]
    /\ UNCHANGED <<cfg, callers, pc, error, df, isrc_column, locals>>

Next ==
    \/ load_unreadable
    \/ load_degraded
    \/ load_begin
    \/ load_chunk
    \/ load_concat
    \/ load_set_index
    \/ load_except
    \/ call_cross_reference
    \/ call_search_isrc
    \/ call_done

\* the loader and the matcher over the files of Files, all of which parse, and
\* the catalogs of Catalogs
Spec == Init /\ [][Next]_vars

\* the same with the steps that the wider inputs add: the peek that fails on a
\* row and the fetch of a catalog
NextInputs ==
    \/ Next
    \/ load_parse_error
    \/ call_get_artist_catalog

SpecInputs == InitInputs /\ [][NextInputs]_vars

\* --------------------------------------------- invocations of cross_reference
\* Several invocations of cross_reference (a static method without state of
\* its own) against the index that load() built, each with a catalog of its
\* own.  An invocation takes one step per iteration of its loop, so that the
\* steps of two invocations interleave.  Its frame holds df_catalog, the
\* catalog object it was given, called_with, the values of its two arguments
\* when it was called, catalog_with_isrc, the rows the loop has still to
\* visit, and matches; the index it reads is the loader's df.

\* files whose rows share a key, and with a row without key
MatcherFiles ==
    { << <<" ", "a", " ">>, <<"A">> >>, << NaN, <<"b">> >> }

InitMatchers ==
    /\ file \in MatcherFiles
    /\ header = << <<"I", "S", "R", "C">>, <<"P", "c", "t">> >>
    /\ CHUNK_SIZE = 1
    /\ FILTER_NO_ISRC \in BOOLEAN
    /\ OPTIMIZE_COLUMNS = TRUE
    /\ ESSENTIAL_KEYWORDS = DefaultKeywords
    /\ Constructed

NoMatcherRuns == \A m \in Matchers : matchers[m].pc = "idle"

returned_from(frame, df_matches, stats) ==
    [pc |-> "done", df_catalog |-> frame.df_catalog, called_with |-> frame.called_with,
     df_matches |-> df_matches, stats |-> stats]

\* lines 32-52: the call, the early returns and the copy of the rows with a key
matcher_call(m) ==
    /\ pc = "Loaded"
    /\ matchers[m].pc = "idle"
    /\ \E df_catalog \in Catalogs :
          LET frame == [df_catalog |-> df_catalog,
                        called_with |-> [df_catalog |-> df_catalog, df_unclaimed |-> df]]
          IN  matchers' = [matchers EXCEPT ![m] =
                 IF df_catalog = None \/ df_catalog.rows = <<>>
                 THEN returned_from(frame, <<>>, EmptyDict)
                 ELSE IF df = None \/ df.rows = <<>>
                 THEN returned_from(frame, <<>>, EmptyDict)
                 ELSE IF with_isrc(df_catalog) = <<>>
                 THEN returned_from(frame, <<>>, EmptyDict)
                 ELSE [pc |-> "loop", df_catalog |-> df_catalog,
                       called_with |-> frame.called_with,
                       catalog_with_isrc |-> with_isrc(df_catalog),
                       matches |-> <<>>]]
    /\ UNCHANGED <<cfg, pc, error, df, isrc_column, locals, call, run>>

\* an iteration that takes the matched rows out of the index
matcher_iteration_consuming(m) ==
    /\ matchers[m].pc = "loop"
    /\ matchers[m].catalog_with_isrc # <<>>
    /\ LET row == Head(matchers[m].catalog_with_isrc)
           hit == in_index(df, row.isrc_clean)
       IN  /\ matchers' = [matchers EXCEPT
                 ![m].catalog_with_isrc = Tail(@),
                 ![m].matches =
                     IF hit
                     THEN Append(@, match_record(row, first_row(loc(df, row.isrc_clean)),
                                                 df.columns))
                     ELSE @]
           /\ df' = IF hit
                    THEN [df EXCEPT !.rows =
                            SelectSeq(@, LAMBDA r : r.ISRC_CLEAN # row.isrc_clean)]
                    ELSE df
    /\ UNCHANGED <<cfg, pc, error, isrc_column, locals, call, run>>

\* one iteration of the loop of lines 55-89
matcher_iteration(m) ==
    /\ matchers[m].pc = "loop"
    /\ matchers[m].catalog_with_isrc # <<>>
    /\ LET row == Head(matchers[m].catalog_with_isrc)
       IN  matchers' = [matchers EXCEPT
              ![m].catalog_with_isrc = Tail(@),
              ![m].matches =
                  IF in_index(df, row.isrc_clean)
                  THEN Append(@, match_record(row, first_row(loc(df, row.isrc_clean)),
                                              df.columns))
                  ELSE @]
    /\ UNCHANGED <<cfg, pc, error, df, isrc_column, locals, call, run>>

\* lines 92-119: the loop is over, the statistics are computed over the
\* catalog and the matches, and both are returned
matcher_finish(m) ==
    /\ matchers[m].pc = "loop"
    /\ matchers[m].catalog_with_isrc = <<>>
    /\ matchers' = [matchers EXCEPT ![m] =
          returned_from(@, @.matches,
                        statistics(@.df_catalog, with_isrc(@.df_catalog), @.matches))]
    /\ UNCHANGED <<cfg, pc, error, df, isrc_column, locals, call, run>>

\* the caller is done with the returned values
matcher_done(m) ==
    /\ matchers[m].pc = "done"
    /\ matchers' = [matchers EXCEPT ![m] = NoMatcher]
    /\ UNCHANGED <<cfg, pc, error, df, isrc_column, locals, call, run>>

\* the loader, and invocations of the matcher against the index once it is
\* loaded; a load starts only while no invocation runs
NextMatchers ==
    \/ NoMatcherRuns /\ load_unreadable
    \/ NoMatcherRuns /\ load_begin
    \/ load_chunk
    \/ load_concat
    \/ load_set_index
    \/ load_except
    \/ \E m \in Matchers : matcher_call(m)
    \/ \E m \in Matchers : matcher_iteration(m)
    \/ \E m \in Matchers : matcher_finish(m)
    \/ \E m \in Matchers : matcher_done(m)

SpecMatchers == InitMatchers /\ [][NextMatchers]_vars

\* ------------------------------------------------ MusicRightsAnalyzer.run
\* main() builds one analyzer and calls run() once.  A step of run() appends
\* its name to run.invoked when it is called and its outcome to run.ok when it
\* has returned.  The Spotify API and the Excel writer are outside the model:
\* authenticate, search_artist and export succeed or fail, and the API
\* answers with any tracks of RawCatalogKeys.
RunSteps ==
    <<"authenticate", "load", "search_artist", "get_artist_catalog",
      "cross_reference", "export">>

\* a step has returned: run() goes on to the next step, or returns False
step_returned(step, ok, next) ==
    [run EXCEPT !.invoked = IF step = "load" THEN @ ELSE Append(@, step),
                !.ok = Append(@, ok),
                !.pc = IF ok THEN next ELSE "returned",
                !.returned = IF ok THEN @ ELSE "False"]

\* lines 56-58: spotify_handler.authenticate()
run_authenticate ==
    /\ run.pc = "authenticate"
    /\ \E ok \in BOOLEAN : run' = step_returned("authenticate", ok, "load")
    /\ UNCHANGED <<cfg, pc, error, df, isrc_column, locals, call, matchers>>

\* line 63: dataset_loader.load() is called
run_load ==
    /\ run.pc = "load"
    /\ pc = "NotStarted"
    /\ run' = [run EXCEPT !.invoked = Append(@, "load"), !.pc = "loading"]
    /\ UNCHANGED <<cfg, pc, error, df, isrc_column, locals, call, matchers>>

\* load() has returned and run() goes on whatever it answered
run_load_returned_unchecked ==
    /\ run.pc = "loading"
    /\ pc \in {"Loaded", "Failed"}
    /\ run' = [run EXCEPT !.ok = Append(@, pc = "Loaded"), !.pc = "search_artist"]
    /\ UNCHANGED <<cfg, pc, error, df, isrc_column, locals, call, matchers>>

\* lines 63-64: load() has returned; if not self.dataset_loader.load(): return False
run_load_returned ==
    /\ run.pc = "loading"
    /\ pc \in {"Loaded", "Failed"}
    /\ run' = step_returned("load", pc = "Loaded", "search_artist")
    /\ UNCHANGED <<cfg, pc, error, df, isrc_column, locals, call, matchers>>

\* lines 69-71: search_artist() returns an id or None
run_search_artist ==
    /\ run.pc = "search_artist"
    /\ \E found \in BOOLEAN :
          run' = step_returned("search_artist", found, "get_artist_catalog")
    /\ UNCHANGED <<cfg, pc, error, df, isrc_column, locals, call, matchers>>

\* lines 76-79: get_artist_catalog(); if self.df_catalog.empty: return False
run_get_artist_catalog ==
    /\ run.pc = "get_artist_catalog"
    /\ \E isrcs \in SeqsUpTo(RawCatalogKeys, MaxCat), keeps_missing \in BOOLEAN :
          LET df_catalog == get_artist_catalog(isrcs, keeps_missing)
          IN  run' = [step_returned("get_artist_catalog", df_catalog.rows # <<>>,
                                    "cross_reference")
                         EXCEPT !.df_catalog = df_catalog]
    /\ UNCHANGED <<cfg, pc, error, df, isrc_column, locals, call, matchers>>

\* lines 86-97: cross_reference(self.df_catalog, get_dataframe()) and
\* generate_summary(); run() does not test what they return
run_cross_reference ==
    /\ run.pc = "cross_reference"
    /\ LET result == cross_reference(run.df_catalog, get_dataframe)
       IN  run' = [step_returned("cross_reference", TRUE, "export")
                      EXCEPT !.df_matches = result.df_matches,
                             !.stats = result.stats]
    /\ UNCHANGED <<cfg, pc, error, df, isrc_column, locals, call, matchers>>

\* lines 100-127: exporter.export(); if not success: return False; return True
run_export ==
    /\ run.pc = "export"
    /\ \E success \in BOOLEAN :
          run' = [step_returned("export", success, "returned")
                     EXCEPT !.returned = IF success THEN "True" ELSE "False"]
    /\ UNCHANGED <<cfg, pc, error, df, isrc_column, locals, call, matchers>>

\* run(), with the steps of the one load() it calls
NextRun ==
    \/ run_authenticate
    \/ run_load
    \/ run.pc = "loading" /\ pc = "NotStarted" /\ load_unreadable
    \/ run.pc = "loading" /\ pc = "NotStarted" /\ load_degraded
    \/ run.pc = "loading" /\ pc = "NotStarted" /\ load_begin
    \/ load_chunk
    \/ load_concat
    \/ load_set_index
    \/ load_except
    \/ run_load_returned
    \/ run_search_artist
    \/ run_get_artist_catalog
    \/ run_cross_reference
    \/ run_export

SpecRun == Init /\ [][NextRun]_vars

\* ------------------------------------------------------------------ properties
Matched == call.op = "cross_reference"

\* the index is the one load() finalizes over the key column
Indexed == pc = "Loaded" /\ df.index = "ISRC_CLEAN"

\* a catalog track has a key: its normalized key is neither absent nor ''
HasKey(track) == notna(track.isrc_clean) /\ track.isrc_clean # <<>>

\* the positions in the file of the rows whose normalized key is key
RowsWithKey(key) == {i \in 1..Len(file) : ISRC_CLEAN(file[i]) = key}

FirstRowWithKey(key) ==
    CHOOSE i \in RowsWithKey(key) : \A j \in RowsWithKey(key) : i <= j

IsZeroRate(rate) == rate.num = 0 /\ rate.den > 0

\* C1: against a loaded index, cross_reference returns one MatchRecord for each
\* catalog track that has a key equal to the normalized key of a retained row,
\* in catalog order, and no MatchRecord for any other track.
C1_ExactMatches ==
    (Matched /\ Indexed) =>
        LET expected == SelectSeq(call.df_catalog.rows,
                                  LAMBDA t : /\ HasKey(t)
                                             /\ \E r \in Range(df.rows) :
                                                    r.ISRC_CLEAN = t.isrc_clean)
        IN  /\ Len(call.df_matches) = Len(expected)
            /\ \A i \in 1..Len(expected) :
                   call.df_matches[i].spotify_track_id = expected[i].track_id

\* C2: a MatchRecord carries the fields of the first row of the input file that
\* has the track's normalized key, whatever the chunk size, and a track gets at
\* most one MatchRecord.
C2_FirstRowWins ==
    (Matched /\ Indexed) =>
        /\ \A m \in Range(call.df_matches) :
               /\ RowsWithKey(m.isrc_clean) # {}
               /\ m.unclaimed.pos = FirstRowWithKey(m.isrc_clean)
               /\ m.unclaimed.raw = file[FirstRowWithKey(m.isrc_clean)]
        /\ \A i, j \in 1..Len(call.df_matches) :
               call.df_matches[i].spotify_track_id = call.df_matches[j].spotify_track_id
                   => i = j

\* C2 witness: two rows with the same key were read in different row groups and
\* a track with that key was matched
C2_Witness ==
    /\ Matched /\ Indexed
    /\ CHUNK_SIZE = 1
    /\ \E m \in Range(call.df_matches) :
          /\ Cardinality(RowsWithKey(m.isrc_clean)) >= 2
          /\ m.unclaimed.pos = 1

\* C3: a catalog track without a key gets no MatchRecord and is not counted in
\* the statistic catalog_with_isrc, whatever the index holds.
C3_EmptyKeyExcluded ==
    Matched =>
        /\ \A m \in Range(call.df_matches) : m.isrc_clean # <<>> /\ notna(m.isrc_clean)
        /\ "catalog_with_isrc" \in DOMAIN call.stats =>
               call.stats.catalog_with_isrc
                   <= Len(SelectSeq(call.df_catalog.rows, HasKey))

\* C4: matching a non-empty catalog in which no track has a key returns
\* statistics that hold the entry match_rate, with the value 0.
C4_ZeroMatchRate ==
    (/\ Matched /\ Indexed
     /\ call.df_catalog.rows # <<>>
     /\ \A t \in Range(call.df_catalog.rows) : ~HasKey(t))
        => /\ "match_rate" \in DOMAIN call.stats
           /\ IsZeroRate(call.stats.match_rate)

\* C5: with an empty or absent catalog, or an absent or empty index,
\* cross_reference returns no MatchRecord and statistics in which
\* total_catalog_tracks, catalog_with_isrc, matches_found and match_rate are
\* present and 0.
C5_ZeroStatistics ==
    (/\ Matched
     /\ \/ call.df_catalog = None
        \/ call.df_catalog.rows = <<>>
        \/ df = None
        \/ df.rows = <<>>)
        => /\ call.df_matches = <<>>
           /\ {"total_catalog_tracks", "catalog_with_isrc", "matches_found", "match_rate"}
                  \subseteq DOMAIN call.stats
           /\ call.stats.total_catalog_tracks = 0
           /\ call.stats.catalog_with_isrc = 0
           /\ call.stats.matches_found = 0
           /\ IsZeroRate(call.stats.match_rate)

\* C6: when the file has a key column and no row with a non-empty key, loading
\* with the filter enabled and then matching a catalog of n tracks, k of them
\* with a key, returns no MatchRecord and statistics with catalog_with_isrc = k
\* and match_rate = 0.
C6_EmptyReference ==
    (/\ Matched
     /\ pc \in {"Loaded", "Failed"}
     /\ error \notin {"file not found", "read error", "indexing error"}
     /\ FILTER_NO_ISRC
     /\ _identify_isrc_column(header) # NoColumn
     /\ \A i \in 1..Len(file) : ISRC_CLEAN(file[i]) = <<>>
     /\ call.df_catalog.rows # <<>>)
        => /\ call.df_matches = <<>>
           /\ {"catalog_with_isrc", "match_rate"} \subseteq DOMAIN call.stats
           /\ call.stats.catalog_with_isrc = Len(SelectSeq(call.df_catalog.rows, HasKey))
           /\ IsZeroRate(call.stats.match_rate)

\* C7: the statistics of a matching run that computes them: the size of the
\* catalog, the number of tracks with a key, the number of MatchRecords, in that
\* order of magnitude, and match_rate * catalog_with_isrc = matches_found * 100.
C7_Statistics ==
    (Matched /\ DOMAIN call.stats # {}) =>
        LET st == call.stats
        IN  /\ st.total_catalog_tracks = Len(call.df_catalog.rows)
            /\ st.catalog_with_isrc = Len(SelectSeq(call.df_catalog.rows, HasKey))
            /\ st.matches_found = Len(call.df_matches)
            /\ 0 <= st.matches_found
            /\ st.matches_found <= st.catalog_with_isrc
            /\ st.catalog_with_isrc <= st.total_catalog_tracks
            /\ st.match_rate.den > 0
            /\ st.match_rate.num * st.catalog_with_isrc
                   = st.matches_found * 100 * st.match_rate.den
            /\ 0 <= st.match_rate.num
            /\ st.match_rate.num <= 100 * st.match_rate.den

\* C8: with a key column and the filter enabled, every row appended during the
\* load and every row of the DataFrame the loader holds has a non-empty
\* ISRC_CLEAN; no row with an absent, empty or whitespace-only raw key is kept.
C8_NonEmptyKeys ==
    (FILTER_NO_ISRC /\ _identify_isrc_column(header) # NoColumn) =>
        \A r \in Range(concat(chunks)) \cup Range(df.rows) :
            /\ r.ISRC_CLEAN # <<>>
            /\ r.raw # NaN
            /\ \E i \in 1..Len(r.raw) : r.raw[i] # " "

\* C8 witness: a load succeeded on a file that holds a row with an absent key,
\* a row with a whitespace-only key and a row with a key
C8_Witness ==
    /\ FILTER_NO_ISRC
    /\ Indexed
    /\ df.rows # <<>>
    /\ \E i \in 1..Len(file) : ISRC_CLEAN(file[i]) = <<>>

\* C9: rows with an empty normalized key are never found: search_isrc with an
\* empty or whitespace-only key returns nothing, and no MatchRecord carries a
\* row whose normalized key is empty.
C9_EmptyKeyNeverFound ==
    /\ (call.op = "search_isrc" /\ strip(call.isrc) = <<>>) => call.result = <<>>
    /\ Matched =>
           \A m \in Range(call.df_matches) : ISRC_CLEAN(m.unclaimed.raw) # <<>>

\* C10: after load() returned False because the file is missing or a read, the
\* concatenation or the indexing failed, get_dataframe() is None and
\* search_isrc finds nothing.
C10_NothingExposedAfterFailure ==
    (pc = "Failed" /\ error \in {"file not found", "read error", "indexing error"}) =>
        /\ get_dataframe = None
        /\ \A isrc \in Queries : search_isrc(isrc) = <<>>

\* C11: once load() has returned (Loaded or Failed), no call puts the loader
\* back into the loading positions or changes the DataFrame it exposes.
C11_NoReload ==
    [][(pc \in {"Loaded", "Failed"}) => (pc' \notin {"Loading", "Indexing"} /\ df' = df)]_vars

\* C12: when the file holds a row that cannot be parsed and load() has returned
\* without a failure of the storage, it has returned True and every row that
\* parses and has a non-empty normalized key is in the DataFrame.
C12_BadRowDropped ==
    (/\ \E i \in 1..Len(file) : file[i] = BadRow
     /\ pc \in {"Loaded", "Failed"}
     /\ error \notin {"file not found", "read error", "indexing error"})
        => /\ pc = "Loaded"
           /\ \A i \in 1..Len(file) :
                  (file[i] # BadRow /\ ISRC_CLEAN(file[i]) # <<>>)
                      => \E r \in Range(df.rows) : r.pos = i

\* no column of the header has a name containing 'isrc'
NoKeyColumn == \A i \in 1..Len(header) : ~contains(lower(header[i]), ISRC)

\* C13: when no column name contains 'isrc', load() never enters the chunk
\* loop and fails only on a failure of the file; when it has returned True
\* every row of the file is kept in file order, no key index is built and
\* isrc_column is None; and no lookup by key finds anything: cross_reference
\* returns no MatchRecord and search_isrc returns no row.
C13_DegradedLoad ==
    NoKeyColumn =>
        /\ pc \notin {"Loading", "Indexing"}
        /\ pc = "Failed" => error \in {"file not found", "read error", "parse error"}
        /\ pc = "Loaded" =>
               /\ isrc_column = NoColumn
               /\ df.index = "RangeIndex"
               /\ Len(df.rows) = Len(file)
               /\ \A i \in 1..Len(file) : df.rows[i].pos = i /\ df.rows[i].raw = file[i]
        /\ Matched => call.df_matches = <<>>
        /\ call.op = "search_isrc" => call.result = <<>>

\* C13 witness: a degraded load returned True on a file with rows, and a
\* catalog holding a track whose key is the normalized first field of a row
\* was matched against it
C13_Witness ==
    /\ NoKeyColumn
    /\ pc = "Loaded"
    /\ Matched
    /\ \E t \in Range(call.df_catalog.rows), i \in 1..Len(file) :
          HasKey(t) /\ t.isrc_clean = ISRC_CLEAN(file[i])

\* the lowercased name of the column contains a keyword of the allowlist
Selects(col) == \E keyword \in ESSENTIAL_KEYWORDS : contains(lower(col), keyword)

RECURSIVE IsSubList(_, _)
IsSubList(a, b) ==
    IF a = <<>> THEN TRUE
    ELSE IF b = <<>> THEN FALSE
    ELSE IF Head(a) = Head(b) THEN IsSubList(Tail(a), Tail(b))
    ELSE IsSubList(a, Tail(b))

\* C14: _get_essential_columns returns the header unchanged when pruning is
\* disabled; otherwise the columns whose lowercased name contains a keyword, in
\* header order; and, when there is none, the first 10 columns.  The result is
\* never empty and is a sub-list of the header; it is what load() reads.
C14_EssentialColumns ==
    LET result == _get_essential_columns(header)
        P      == {i \in 1..Len(header) : Selects(header[i])}
        nth(k) == CHOOSE i \in P : Cardinality({j \in P : j < i}) = k - 1
    IN  /\ ~OPTIMIZE_COLUMNS => result = header
        /\ (OPTIMIZE_COLUMNS /\ P # {}) =>
               /\ Len(result) = Cardinality(P)
               /\ \A k \in 1..Len(result) : result[k] = header[nth(k)]
        /\ (OPTIMIZE_COLUMNS /\ P = {}) =>
               /\ Len(result) = Min(Len(header), FallbackColumns)
               /\ \A k \in 1..Len(result) : result[k] = header[k]
        /\ result # <<>>
        /\ IsSubList(result, header)
        /\ pc \in {"Loading", "Indexing"} => essential_cols = result

\* C14 witness: load() selected the columns of a header of more than 10
\* columns, none of which contains a keyword, and kept the first 10
C14_Witness ==
    /\ pc = "Loading"
    /\ OPTIMIZE_COLUMNS
    /\ \A i \in 1..Len(header) : ~Selects(header[i])
    /\ Len(header) > FallbackColumns
    /\ Len(essential_cols) = FallbackColumns

\* C15: once load() has selected the columns, the key column is the first
\* column of the header whose lowercased name contains 'isrc' and it is one of
\* the selected columns; load() never fails on a key column that is missing
\* from a row group.
C15_KeyColumnSelected ==
    /\ (pc \in {"Loading", "Indexing"} \/ Indexed) =>
           /\ \E i \in 1..Len(header) :
                  /\ header[i] = isrc_column
                  /\ contains(lower(header[i]), ISRC)
                  /\ \A j \in 1..(i - 1) : ~contains(lower(header[j]), ISRC)
           /\ isrc_column \in Range(essential_cols)
    /\ error # "KeyError"

\* C16: normalization is idempotent on every key that load() normalizes, raw
\* or already normalized, and on every query that search_isrc normalizes.
C16_Idempotent ==
    /\ pc \in {"Loading", "Indexing"} =>
           \A r \in Range(concat(chunks)) :
               /\ ISRC_CLEAN(ISRC_CLEAN(r.raw)) = ISRC_CLEAN(r.raw)
               /\ ISRC_CLEAN(r.ISRC_CLEAN) = r.ISRC_CLEAN
    /\ (call.op = "search_isrc" /\ df # None /\ ~call.raised) =>
           LET isrc_clean_ == upper(strip(call.isrc))
           IN  upper(strip(isrc_clean_)) = isrc_clean_

\* C16 witness: a query with two leading blanks and a lowercase letter found
\* the row whose raw key is that letter
C16_Witness ==
    /\ Indexed
    /\ call.op = "search_isrc"
    /\ call.isrc = <<" ", " ", "b">>
    /\ \E r \in Range(call.result) : r.raw = <<"b">>

\* C17: normalization never raises and maps an absent key to the empty key: a
\* row of the file without a key gets ISRC_CLEAN '', search_isrc returns for
\* every query, and a track whose ISRC is null gets no non-empty isrc_clean.
C17_NormalizationTotal ==
    /\ \A r \in Range(concat(chunks)) : r.raw = NaN => r.ISRC_CLEAN = <<>>
    /\ call.op = "search_isrc" => ~call.raised
    /\ call.op = "get_artist_catalog" =>
           \A i \in 1..Len(call.isrcs) :
               call.isrcs[i] = NoKey => call.df_catalog.rows[i].isrc_clean \in {NA, <<>>}

\* the positions of the rows a load retains: it does not depend on CHUNK_SIZE
Retained == {i \in 1..Len(file) : ~FILTER_NO_ISRC \/ ISRC_CLEAN(file[i]) # <<>>}

\* C18: after a successful load the retained rows, their order, their number
\* and the number of distinct keys are functions of the file and of the filter
\* alone, so they are the same for any two chunk sizes: the rows are the rows of
\* the file with a non-empty normalized key (all rows when the filter is off),
\* in file order.
C18_ChunkSizeIndependent ==
    Indexed =>
        /\ Len(df.rows) = Cardinality(Retained)
        /\ \A k \in 1..Len(df.rows) :
               /\ df.rows[k].pos \in Retained
               /\ df.rows[k].raw = file[df.rows[k].pos]
               /\ df.rows[k].ISRC_CLEAN = ISRC_CLEAN(file[df.rows[k].pos])
        /\ \A k1, k2 \in 1..Len(df.rows) : k1 < k2 => df.rows[k1].pos < df.rows[k2].pos
        /\ total_rows = Cardinality(Retained)
        /\ Cardinality(isrc_set) = Cardinality({ISRC_CLEAN(file[i]) : i \in Retained})

\* C18 witness: a load in row groups of one row appended two groups that hold
\* the same key in two spellings
C18_Witness ==
    /\ Indexed
    /\ CHUNK_SIZE = 1
    /\ Len(chunks) = 2
    /\ Cardinality(isrc_set) = 1
    /\ df.rows[1].raw # df.rows[2].raw

\* C19: no read of the data rows returns more than CHUNK_SIZE rows, and a
\* successful load of N > 0 rows has read them in ceil(N / CHUNK_SIZE) groups.
C19_RowGroups ==
    /\ \A k \in 1..Len(groups) : groups[k] <= CHUNK_SIZE
    /\ (pc = "Loaded" /\ Len(file) > 0) =>
           /\ Len(groups) * CHUNK_SIZE >= Len(file)
           /\ (Len(groups) - 1) * CHUNK_SIZE < Len(file)

\* C20: every MatchRecord carries the fields of its catalog track and, for
\* every column of the reference DataFrame other than the key column and
\* ISRC_CLEAN, the field 'unclaimed_' + column; it has no field for ISRC_CLEAN.
C20_MatchRecordFields ==
    (Matched /\ Indexed) =>
        \A m \in Range(call.df_matches) :
            /\ \E t \in Range(call.df_catalog.rows) :
                   /\ m.spotify_track_id = t.track_id
                   /\ m.album_name = t.album_name
                   /\ m.isrc_clean = t.isrc_clean
            /\ \A col \in Range(df.columns) \ {isrc_column, ISRC_CLEAN_COL} :
                   unclaimed_(col) \in m.unclaimed_fields
            /\ unclaimed_(ISRC_CLEAN_COL) \notin m.unclaimed_fields


\* C21: an invocation of cross_reference leaves the index and the catalog it
\* is given as they were when it was called, whatever the steps of other
\* invocations between its own, and it returns the MatchRecords and the
\* statistics that one uninterrupted invocation returns for those arguments.
C21_ReadOnly ==
    \A m \in Matchers :
        matchers[m].pc # "idle" =>
            /\ df = matchers[m].called_with.df_unclaimed
            /\ matchers[m].df_catalog = matchers[m].called_with.df_catalog
            /\ matchers[m].pc = "done" =>
                  [df_matches |-> matchers[m].df_matches, stats |-> matchers[m].stats]
                      = cross_reference(matchers[m].called_with.df_catalog,
                                        matchers[m].called_with.df_unclaimed)

\* one invocation has returned two matches and the loop of the other one, over
\* another catalog, is under way with a match found and a track left
C21_Witness ==
    /\ matchers["m1"].pc = "done"
    /\ Len(matchers["m1"].df_matches) = 2
    /\ matchers["m2"].pc = "loop"
    /\ Len(matchers["m2"].matches) = 1
    /\ Len(matchers["m2"].catalog_with_isrc) = 1
    /\ matchers["m1"].called_with.df_catalog # matchers["m2"].called_with.df_catalog


\* C22: run() calls its steps in the order authenticate, load, search_artist,
\* get_artist_catalog, cross_reference, export; a step is called only if
\* every step before it succeeded, so cross_reference and export are called
\* only after load() returned True and with a catalog that has rows; and run()
\* returns True only if all six steps were called and succeeded.
C22_StepOrder ==
    /\ Len(run.invoked) <= Len(RunSteps)
    /\ run.invoked = SubSeq(RunSteps, 1, Len(run.invoked))
    /\ Len(run.ok) \in {Len(run.invoked) - 1, Len(run.invoked)}
    /\ \A i \in 1..(Len(run.invoked) - 1) : run.ok[i]
    /\ Len(run.invoked) >= 5 =>
          /\ pc = "Loaded"
          /\ run.df_catalog # None
          /\ run.df_catalog.rows # <<>>
    /\ run.returned = "True" =>
          /\ run.invoked = RunSteps
          /\ \A i \in 1..Len(RunSteps) : run.ok[i]

\* run() has returned True after a cross-reference that found a match
C22_Witness ==
    /\ run.returned = "True"
    /\ run.df_matches # <<>>

\* run() has returned False because load() did: no later step was called
C22_WitnessFailedLoad ==
    /\ run.returned = "False"
    /\ pc = "Failed"
    /\ run.invoked = <<"authenticate", "load">>

====
